---- MODULE Spec2Model ----
(***************************************************************************)
(* Azure Kinect to LSL streamer (AKlsl.cpp).                               *)
(*                                                                         *)
(* The source file holds two variants of main(): lines 26-164 (variant 1)  *)
(* and lines 180-335 (variant 2).  Both are modelled by one state machine; *)
(* the variable "variant" selects which one runs.  Every call into the     *)
(* device, the tracker and the streaming library is one action; what the   *)
(* library returns is drawn from its result type.                          *)
(***************************************************************************)
EXTENDS Integers, Sequences, FiniteSets, TLC

(***************************************************************************)
(* Bounds of the model                                                     *)
(***************************************************************************)
\* largest body count a popped frame reports
MaxBodies == 2
\* small joint tables (besides the two sizes the code itself names)
MaxJoints == 2

(***************************************************************************)
(* Program constants                                                       *)
(***************************************************************************)
\* lsl_create_streaminfo(..., 32 * 7, ...): joints assumed by the stream
ChannelJoints == 32
\* float data[7 * 31]: joints the pose buffer has room for
BufferJoints == 31
\* values per joint: 3 position + 4 orientation
ValuesPerJoint == 7
\* nominal rate handed to lsl_create_streaminfo after the CPU fallback
BaselineRate == 4
\* nominal rate handed to lsl_create_streaminfo when CUDA works
AcceleratedRate == 10
\* while (... frame_count < 100)
FrameLimit == 100
\* exit(1) in VERIFY
VerifyExitCode == 1
\* return -1 on multiple bodies
MultiBodyExitCode == -1

\* k4a_result_t
K4A_RESULT == {"SUCCEEDED", "FAILED"}
\* k4a_wait_result_t
K4A_WAIT_RESULT == {"SUCCEEDED", "FAILED", "TIMEOUT"}

\* sizes of g_jointNames (BodyTrackingHelpers.h) the model runs with
JointTableSizes == (1..MaxJoints) \cup {BufferJoints, ChannelJoints}

\* suffixes = {"_posx", "_posy", "_posz", "_oriw", "_orix", "_oriy", "_oriz"}
suffixes == <<"_posx", "_posy", "_posz", "_oriw", "_orix", "_oriy", "_oriz">>

\* iteration orders of the unordered_map g_jointNames with n entries:
\* the order is fixed for one run but is not the insertion order
IterationOrders(n) ==
    { [i \in 1..n |-> i], [i \in 1..n |-> n + 1 - i] }

\* declared capacity of float data[7 * 31]
DataCapacity == ValuesPerJoint * BufferJoints

VARIABLES
    variant,            \* 1: main at lines 26-164, 2: main at lines 180-335
    g_jointNames,       \* joint ids in the iteration order of the map
    pc,                 \* position in main
    exit_status,        \* value handed to exit() / returned by main
    device,             \* "null", "open", "closed"
    cameras,            \* "off", "started", "stopped"
    tracker,            \* the handle main's outer variable holds
    shadow_tracker,     \* the block-local handle of variant 2 (line 206)
    cuda_result,        \* result of the CUDA k4abt_tracker_create
    cpu_result,         \* result of the CPU k4abt_tracker_create
    info,               \* lsl_streaminfo: channel count and nominal rate
    labels,             \* channel children appended under "channels"
    outlet,             \* TRUE once lsl_create_outlet ran
    consumers,          \* TRUE once lsl_wait_for_consumers returned true
    frame_count,
    get_capture_result,
    queue_capture_result,
    pop_frame_result,
    sensor_capture,     \* "none", "held", "released"
    capture_releases,   \* k4a_capture_release calls on this iteration's capture
    body_frame,         \* "null", "held", "released"
    frame_releases,     \* k4abt_frame_release calls on this iteration's frame
    num_bodies,
    data,               \* float data[7 * 31]
    outside,            \* indexes beyond data's capacity touched this iteration
    pushes,             \* lsl_push_sample_f calls of this iteration
    sample,             \* what the last push of this iteration read
    teardown,           \* cleanup calls made so far, in order
    requests,           \* k4a_device_get_capture calls made so far
    captures_held,      \* captures obtained and not yet released
    frames_held,        \* body frames obtained and not yet released
    failures            \* failed steps seen so far in the session

vars == << variant, g_jointNames, pc, exit_status, device, cameras, tracker,
           shadow_tracker, cuda_result, cpu_result, info, labels, outlet,
           consumers, frame_count, get_capture_result, queue_capture_result,
           pop_frame_result, sensor_capture, capture_releases, body_frame,
           frame_releases, num_bodies, data, outside, pushes, sample,
           teardown, requests, captures_held, frames_held, failures >>

\* bookkeeping of the calls that obtain and release resources
flightVars == << requests, captures_held, frames_held >>

setupVars == << device, cameras, tracker, shadow_tracker, cuda_result,
                cpu_result, info, labels, outlet, consumers >>

frameVars == << frame_count, get_capture_result, queue_capture_result,
                pop_frame_result, sensor_capture, capture_releases,
                body_frame, frame_releases, num_bodies, data, outside,
                pushes, sample >>

\* an automatic variable that was declared but never assigned
Indeterminate == << "indeterminate" >>

NoInfo == [channel_count |-> 0, nominal_srate |-> 0]

\* float data[7 * 31] right after its declaration
FreshData == [i \in 0..(DataCapacity - 1) |-> Indeterminate]

Init ==
    /\ variant \in {1, 2}
    /\ \E n \in JointTableSizes : g_jointNames \in IterationOrders(n)
    /\ pc = "device_open"
    /\ exit_status = 0
    /\ device = "null"
    /\ cameras = "off"
    /\ tracker = "null"
    /\ shadow_tracker = "null"
    /\ cuda_result = "none"
    /\ cpu_result = "none"
    /\ info = NoInfo
    /\ labels = << >>
    /\ outlet = FALSE
    /\ consumers = FALSE
    /\ frame_count = 0
    /\ get_capture_result = "none"
    /\ queue_capture_result = "none"
    /\ pop_frame_result = "none"
    /\ sensor_capture = "none"
    /\ capture_releases = 0
    /\ body_frame = "null"
    /\ frame_releases = 0
    /\ num_bodies = 0
    /\ data = FreshData
    /\ outside = {}
    /\ pushes = 0
    /\ sample = << >>
    /\ teardown = << >>
    /\ requests = 0
    /\ captures_held = 0
    /\ frames_held = 0
    /\ failures = {}

(***************************************************************************)
(* Setup                                                                   *)
(***************************************************************************)

\* VERIFY(result, error): exit(1) unless the result is K4A_RESULT_SUCCEEDED
VERIFY(result, error, next) ==
    IF result # "SUCCEEDED"
    THEN /\ pc' = "exit"
         /\ exit_status' = VerifyExitCode
         /\ failures' = failures \cup {error}
    ELSE /\ pc' = next
         /\ UNCHANGED << exit_status, failures >>

\* VERIFY(k4a_device_open(0, &device), ...)
DeviceOpen ==
    /\ pc = "device_open"
    /\ \E r \in K4A_RESULT :
         /\ device' = IF r = "SUCCEEDED" THEN "open" ELSE device
         /\ VERIFY(r, "DeviceUnavailable", "start_cameras")
    /\ UNCHANGED << variant, g_jointNames, cameras, tracker, shadow_tracker,
                    cuda_result, cpu_result, info, labels, outlet, consumers,
                    frameVars, teardown >>
    /\ UNCHANGED flightVars

\* VERIFY(k4a_device_start_cameras(device, &deviceConfig), ...)
StartCameras ==
    /\ pc = "start_cameras"
    /\ \E r \in K4A_RESULT :
         /\ cameras' = IF r = "SUCCEEDED" THEN "started" ELSE cameras
         /\ VERIFY(r, "CamerasUnavailable", "get_calibration")
    /\ UNCHANGED << variant, g_jointNames, device, tracker, shadow_tracker,
                    cuda_result, cpu_result, info, labels, outlet, consumers,
                    frameVars, teardown >>
    /\ UNCHANGED flightVars

\* VERIFY(k4a_device_get_calibration(...), ...)
GetCalibration ==
    /\ pc = "get_calibration"
    /\ \E r \in K4A_RESULT :
         VERIFY(r, "CalibrationUnavailable", "tracker_create_cuda")
    /\ UNCHANGED << variant, g_jointNames, setupVars, frameVars, teardown >>
    /\ UNCHANGED flightVars

\* if (k4abt_tracker_create(&sensor_calibration, tracker_config, &tracker)
\*       != K4A_RESULT_SUCCEEDED)  with processing_mode GPU_CUDA
TrackerCreateCuda ==
    /\ pc = "tracker_create_cuda"
    /\ \E r \in K4A_RESULT :
         /\ cuda_result' = r
         /\ tracker' = IF r = "SUCCEEDED" THEN "cuda" ELSE tracker
         /\ pc' = IF r # "SUCCEEDED" THEN "tracker_create_cpu"
                                     ELSE "streaminfo_cuda"
    /\ UNCHANGED << variant, g_jointNames, exit_status, device, cameras,
                    shadow_tracker, cpu_result, info, labels, outlet,
                    consumers, frameVars, teardown, failures >>
    /\ UNCHANGED flightVars

\* variant 1: VERIFY(k4abt_tracker_create(... CPU ..., &tracker), ...)
\* variant 2: k4abt_tracker_create(...) into a block-local tracker that
\*            shadows main's, result not looked at
TrackerCreateCpu ==
    /\ pc = "tracker_create_cpu"
    /\ \E r \in K4A_RESULT :
         /\ cpu_result' = r
         /\ IF variant = 1
            THEN /\ tracker' = IF r = "SUCCEEDED" THEN "cpu" ELSE tracker
                 /\ VERIFY(r, "BackendUnavailable", "streaminfo_cpu")
                 /\ UNCHANGED shadow_tracker
            ELSE /\ shadow_tracker' = IF r = "SUCCEEDED" THEN "cpu"
                                                         ELSE shadow_tracker
                 /\ failures' = IF r # "SUCCEEDED"
                                THEN failures \cup {"BackendUnavailable"}
                                ELSE failures
                 /\ pc' = "streaminfo_cpu"
                 /\ UNCHANGED << tracker, exit_status >>
    /\ UNCHANGED << variant, g_jointNames, device, cameras, cuda_result,
                    info, labels, outlet, consumers, frameVars, teardown >>
    /\ UNCHANGED flightVars

\* variation of CreateStreamInfoCpu: the fallback branch hands over the
\* CUDA rate
CreateStreamInfoCpu_SameRate ==
    /\ pc = "streaminfo_cpu"
    /\ info' = [channel_count |-> ChannelJoints * ValuesPerJoint,
                nominal_srate |-> AcceleratedRate]
    /\ pc' = "append_channels"
    /\ UNCHANGED << variant, g_jointNames, exit_status, device, cameras,
                    tracker, shadow_tracker, cuda_result, cpu_result, labels,
                    outlet, consumers, frameVars, teardown, failures >>
    /\ UNCHANGED flightVars

\* info = lsl_create_streaminfo("Azure-Kinect", "MoCap", 32 * 7, 4, ...)
CreateStreamInfoCpu ==
    /\ pc = "streaminfo_cpu"
    /\ info' = [channel_count |-> ChannelJoints * ValuesPerJoint,
                nominal_srate |-> BaselineRate]
    /\ pc' = "append_channels"
    /\ UNCHANGED << variant, g_jointNames, exit_status, device, cameras,
                    tracker, shadow_tracker, cuda_result, cpu_result, labels,
                    outlet, consumers, frameVars, teardown, failures >>
    /\ UNCHANGED flightVars

\* info = lsl_create_streaminfo("Azure-Kinect", "MoCap", 32 * 7, 10, ...)
CreateStreamInfoCuda ==
    /\ pc = "streaminfo_cuda"
    /\ info' = [channel_count |-> ChannelJoints * ValuesPerJoint,
                nominal_srate |-> AcceleratedRate]
    /\ pc' = "append_channels"
    /\ UNCHANGED << variant, g_jointNames, exit_status, device, cameras,
                    tracker, shadow_tracker, cuda_result, cpu_result, labels,
                    outlet, consumers, frameVars, teardown, failures >>
    /\ UNCHANGED flightVars

\* the channel children one joint contributes: its name with each suffix
JointChannels(joint) ==
    [k \in 1..Len(suffixes) |-> << joint, suffixes[k] >>]

\* for (it = g_jointNames.begin(); it != g_jointNames.end(); ++it)
\*     for (suffix : suffixes) append a channel named jointName + suffix
RECURSIVE ChannelLabels(_)
ChannelLabels(order) ==
    IF order = << >> THEN << >>
    ELSE JointChannels(Head(order)) \o ChannelLabels(Tail(order))

AppendChannels ==
    /\ pc = "append_channels"
    /\ labels' = ChannelLabels(g_jointNames)
    /\ pc' = "create_outlet"
    /\ UNCHANGED << variant, g_jointNames, exit_status, device, cameras,
                    tracker, shadow_tracker, cuda_result, cpu_result, info,
                    outlet, consumers, frameVars, teardown, failures >>
    /\ UNCHANGED flightVars

\* lsl_outlet outlet = lsl_create_outlet(info, 0, 60)
CreateOutlet ==
    /\ pc = "create_outlet"
    /\ outlet' = TRUE
    /\ pc' = "wait_for_consumers"
    /\ UNCHANGED << variant, g_jointNames, exit_status, device, cameras,
                    tracker, shadow_tracker, cuda_result, cpu_result, info,
                    labels, consumers, frameVars, teardown, failures >>
    /\ UNCHANGED flightVars

\* variation of WaitForConsumers: the call is made once (an if in place of
\* the while) and the loop starts whatever it returned
WaitForConsumers_Once ==
    /\ pc = "wait_for_consumers"
    /\ \E attached \in BOOLEAN : consumers' = attached
    /\ pc' = "get_capture"
    /\ frame_count' = 0
    /\ UNCHANGED << variant, g_jointNames, exit_status, device, cameras,
                    tracker, shadow_tracker, cuda_result, cpu_result, info,
                    labels, outlet, get_capture_result, queue_capture_result,
                    pop_frame_result, sensor_capture, capture_releases,
                    body_frame, frame_releases, num_bodies, data, outside,
                    pushes, sample, teardown, failures >>
    /\ UNCHANGED flightVars

\* while (!lsl_wait_for_consumers(outlet, 1200)) ;   then frame_count = 0
WaitForConsumers ==
    /\ pc = "wait_for_consumers"
    /\ \E attached \in BOOLEAN :
         /\ consumers' = attached
         /\ pc' = IF attached THEN "get_capture" ELSE "wait_for_consumers"
    /\ frame_count' = 0
    /\ UNCHANGED << variant, g_jointNames, exit_status, device, cameras,
                    tracker, shadow_tracker, cuda_result, cpu_result, info,
                    labels, outlet, get_capture_result, queue_capture_result,
                    pop_frame_result, sensor_capture, capture_releases,
                    body_frame, frame_releases, num_bodies, data, outside,
                    pushes, sample, teardown, failures >>
    /\ UNCHANGED flightVars

SetupNext ==
    \/ DeviceOpen
    \/ StartCameras
    \/ GetCalibration
    \/ TrackerCreateCuda
    \/ TrackerCreateCpu
    \/ CreateStreamInfoCpu
    \/ CreateStreamInfoCuda
    \/ AppendChannels
    \/ CreateOutlet
    \/ WaitForConsumers

(***************************************************************************)
(* Capture loop                                                            *)
(***************************************************************************)

\* where control goes when a call of the loop did not succeed and the code
\* has no break for it: the end of the do-body, i.e. the loop condition
EndOfBody == "loop_test"

\* where a break leads: the cleanup after the loop
AfterLoop == "tracker_shutdown"

\* k4a_device_get_capture(device, &sensor_capture, K4A_WAIT_INFINITE)
\* variant 1 has no else branch for a capture that was not obtained,
\* variant 2 breaks on timeout and on failure
GetCapture ==
    /\ pc = "get_capture"
    /\ \E r \in K4A_WAIT_RESULT :
         /\ get_capture_result' = r
         /\ sensor_capture' = IF r = "SUCCEEDED" THEN "held" ELSE sensor_capture
         /\ failures' = IF r = "SUCCEEDED" THEN failures
                        ELSE failures \cup {"CaptureFailed"}
         /\ pc' = IF r = "SUCCEEDED" THEN "enqueue_capture"
                  ELSE IF variant = 1 THEN EndOfBody ELSE AfterLoop
    /\ UNCHANGED << variant, g_jointNames, exit_status, setupVars,
                    frame_count, queue_capture_result, pop_frame_result,
                    capture_releases, body_frame, frame_releases, num_bodies,
                    data, outside, pushes, sample, teardown >>
    /\ requests' = IF requests > FrameLimit THEN requests ELSE requests + 1
    /\ captures_held' = IF get_capture_result' = "SUCCEEDED"
                        THEN captures_held + 1 ELSE captures_held
    /\ UNCHANGED frames_held

\* k4abt_tracker_enqueue_capture(tracker, sensor_capture, K4A_WAIT_INFINITE)
EnqueueCapture ==
    /\ pc = "enqueue_capture"
    /\ \E r \in K4A_WAIT_RESULT :
         /\ queue_capture_result' = r
         /\ failures' = IF r = "SUCCEEDED" THEN failures
                        ELSE failures \cup {"SubmitFailed"}
    /\ pc' = "capture_release"
    /\ UNCHANGED << variant, g_jointNames, exit_status, setupVars,
                    frame_count, get_capture_result, pop_frame_result,
                    sensor_capture, capture_releases, body_frame,
                    frame_releases, num_bodies, data, outside, pushes, sample,
                    teardown >>
    /\ UNCHANGED flightVars

\* variation of CaptureRelease: the enqueue result is reported but the
\* break is missing
CaptureRelease_NoBreak ==
    /\ pc = "capture_release"
    /\ sensor_capture' = "released"
    /\ capture_releases' = capture_releases + 1
    /\ pc' = "pop_result"
    /\ UNCHANGED << variant, g_jointNames, exit_status, setupVars,
                    frame_count, get_capture_result, queue_capture_result,
                    pop_frame_result, body_frame, frame_releases, num_bodies,
                    data, outside, pushes, sample, teardown, failures >>
    /\ captures_held' = captures_held - 1
    /\ UNCHANGED << requests, frames_held >>

\* variation of CaptureRelease: the release sits behind the test of the
\* enqueue result, so a break skips it
CaptureRelease_AfterTest ==
    /\ pc = "capture_release"
    /\ IF queue_capture_result # "SUCCEEDED"
       THEN /\ pc' = AfterLoop
            /\ UNCHANGED << sensor_capture, capture_releases >>
       ELSE /\ sensor_capture' = "released"
            /\ capture_releases' = capture_releases + 1
            /\ pc' = "pop_result"
    /\ UNCHANGED << variant, g_jointNames, exit_status, setupVars,
                    frame_count, get_capture_result, queue_capture_result,
                    pop_frame_result, body_frame, frame_releases, num_bodies,
                    data, outside, pushes, sample, teardown, failures >>
    /\ captures_held' = IF queue_capture_result # "SUCCEEDED"
                        THEN captures_held ELSE captures_held - 1
    /\ UNCHANGED << requests, frames_held >>

\* k4a_capture_release(sensor_capture);
\* if (queue_capture_result != K4A_WAIT_RESULT_SUCCEEDED) break;
\* (variant 2 tests TIMEOUT and FAILED one after the other)
CaptureRelease ==
    /\ pc = "capture_release"
    /\ sensor_capture' = "released"
    /\ capture_releases' = capture_releases + 1
    /\ pc' = IF queue_capture_result # "SUCCEEDED" THEN AfterLoop
                                                   ELSE "pop_result"
    /\ UNCHANGED << variant, g_jointNames, exit_status, setupVars,
                    frame_count, get_capture_result, queue_capture_result,
                    pop_frame_result, body_frame, frame_releases, num_bodies,
                    data, outside, pushes, sample, teardown, failures >>
    /\ captures_held' = captures_held - 1
    /\ UNCHANGED << requests, frames_held >>

\* k4abt_frame_t body_frame = NULL;
\* k4abt_tracker_pop_result(tracker, &body_frame, K4A_WAIT_INFINITE)
\* variant 1 has no else branch, variant 2 breaks on timeout and on failure;
\* variant 2 declares float data[7 * 31] right before (line 263)
PopResult ==
    /\ pc = "pop_result"
    /\ \E r \in K4A_WAIT_RESULT :
         /\ pop_frame_result' = r
         /\ body_frame' = IF r = "SUCCEEDED" THEN "held" ELSE "null"
         /\ failures' = IF r = "SUCCEEDED" THEN failures
                        ELSE failures \cup {"PopFailed"}
         /\ pc' = IF r = "SUCCEEDED" THEN "get_num_bodies"
                  ELSE IF variant = 1 THEN EndOfBody ELSE AfterLoop
    /\ data' = IF variant = 2 THEN FreshData ELSE data
    /\ UNCHANGED << variant, g_jointNames, exit_status, setupVars,
                    frame_count, get_capture_result, queue_capture_result,
                    sensor_capture, capture_releases, frame_releases,
                    num_bodies, outside, pushes, sample, teardown >>
    /\ frames_held' = IF pop_frame_result' = "SUCCEEDED"
                      THEN frames_held + 1 ELSE frames_held
    /\ UNCHANGED << requests, captures_held >>

\* variation of GetNumBodies: several bodies are reported but the frame is
\* processed all the same (the return is missing)
GetNumBodies_NoReturn ==
    /\ pc = "get_num_bodies"
    /\ \E n \in 0..MaxBodies :
         /\ num_bodies' = n
         /\ failures' = IF n > 1 THEN failures \cup {"AmbiguousBodyCount"}
                                 ELSE failures
    /\ pc' = "extract"
    /\ UNCHANGED << variant, g_jointNames, exit_status, setupVars,
                    frame_count, get_capture_result, queue_capture_result,
                    pop_frame_result, sensor_capture, capture_releases,
                    body_frame, frame_releases, data, outside, pushes, sample,
                    teardown >>
    /\ UNCHANGED flightVars

\* size_t num_bodies = k4abt_frame_get_num_bodies(body_frame);
\* if (num_bodies > 1) { printf(...); return -1; }
GetNumBodies ==
    /\ pc = "get_num_bodies"
    /\ \E n \in 0..MaxBodies :
         /\ num_bodies' = n
         /\ IF n > 1
            THEN /\ pc' = "exit"
                 /\ exit_status' = MultiBodyExitCode
                 /\ failures' = failures \cup {"AmbiguousBodyCount"}
            ELSE /\ pc' = "extract"
                 /\ UNCHANGED << exit_status, failures >>
    /\ UNCHANGED << variant, g_jointNames, setupVars, frame_count,
                    get_capture_result, queue_capture_result,
                    pop_frame_result, sensor_capture, capture_releases,
                    body_frame, frame_releases, data, outside, pushes, sample,
                    teardown >>
    /\ UNCHANGED flightVars

\* the seven values the code reads from skeleton.joints[joint], in the
\* order it stores them: position.xyz.x/y/z, orientation.wxyz.w/x/y/z
JointValues(joint, valid) ==
    IF valid
    THEN << << joint, "position.x" >>, << joint, "position.y" >>,
            << joint, "position.z" >>, << joint, "orientation.w" >>,
            << joint, "orientation.x" >>, << joint, "orientation.y" >>,
            << joint, "orientation.z" >> >>
    ELSE [k \in 1..ValuesPerJoint |-> Indeterminate]

\* data[j * 7 + k] = ... for every joint at position j of the iteration
\* (j counts from 0); "valid" tells whether the skeleton was filled in
WriteJoints(buf, order, valid) ==
    [i \in DOMAIN buf |->
        IF i \div ValuesPerJoint < Len(order)
        THEN JointValues(order[(i \div ValuesPerJoint) + 1],
                         valid)[(i % ValuesPerJoint) + 1]
        ELSE buf[i]]

\* the indexes j * 7 + k of those stores that lie beyond the buffer
WritesOutside(order) ==
    { i \in 0..(Len(order) * ValuesPerJoint - 1) : i >= DataCapacity }

\* variant 1 (lines 130-147): float data[7 * 31]; then for every joint
\*   k4abt_frame_get_body_skeleton(body_frame, 0, &skeleton) and the seven
\*   stores, whatever num_bodies is (with no body the skeleton stays
\*   unassigned)
\* variant 2 (lines 277-297): for (i = 0; i < num_bodies; i++) the same
\*   stores from body i
Extract ==
    /\ pc = "extract"
    /\ IF variant = 1
       THEN /\ data' = WriteJoints(FreshData, g_jointNames, num_bodies >= 1)
            /\ outside' = outside \cup WritesOutside(g_jointNames)
       ELSE IF num_bodies >= 1
            THEN /\ data' = WriteJoints(data, g_jointNames, TRUE)
                 /\ outside' = outside \cup WritesOutside(g_jointNames)
            ELSE UNCHANGED << data, outside >>
    /\ pc' = "push_sample"
    /\ UNCHANGED << variant, g_jointNames, exit_status, setupVars,
                    frame_count, get_capture_result, queue_capture_result,
                    pop_frame_result, sensor_capture, capture_releases,
                    body_frame, frame_releases, num_bodies, pushes, sample,
                    teardown, failures >>
    /\ UNCHANGED flightVars

\* lsl_push_sample_f(outlet, data): reads as many floats as the stream has
\* channels, starting at data
PushSample ==
    /\ pc = "push_sample"
    /\ sample' = [i \in 0..(info.channel_count - 1) |->
                     IF i < DataCapacity THEN data[i] ELSE Indeterminate]
    /\ outside' = outside \cup
                    { i \in 0..(info.channel_count - 1) : i >= DataCapacity }
    /\ pushes' = pushes + 1
    /\ pc' = "frame_release"
    /\ UNCHANGED << variant, g_jointNames, exit_status, setupVars,
                    frame_count, get_capture_result, queue_capture_result,
                    pop_frame_result, sensor_capture, capture_releases,
                    body_frame, frame_releases, num_bodies, data, teardown,
                    failures >>
    /\ UNCHANGED flightVars

\* variation of FrameRelease: the body frame is not released at the end of
\* the iteration
FrameRelease_Forgotten ==
    /\ pc = "frame_release"
    /\ pc' = EndOfBody
    /\ UNCHANGED << variant, g_jointNames, exit_status, setupVars, frameVars,
                    teardown, failures, flightVars >>

\* k4abt_frame_release(body_frame)
FrameRelease ==
    /\ pc = "frame_release"
    /\ body_frame' = "released"
    /\ frame_releases' = frame_releases + 1
    /\ pc' = EndOfBody
    /\ UNCHANGED << variant, g_jointNames, exit_status, setupVars,
                    frame_count, get_capture_result, queue_capture_result,
                    pop_frame_result, sensor_capture, capture_releases,
                    num_bodies, data, outside, pushes, sample, teardown,
                    failures >>
    /\ frames_held' = frames_held - 1
    /\ UNCHANGED << requests, captures_held >>

\* variant 1: while (++frame_count < 100)
\* variant 2: while (frame_count < 100), frame_count++ is commented out
\* Going round starts a new iteration: its locals are new objects.
LoopTest ==
    /\ pc = "loop_test"
    /\ frame_count' = IF variant = 1 THEN frame_count + 1 ELSE frame_count
    /\ pc' = IF frame_count' < FrameLimit THEN "get_capture" ELSE AfterLoop
    /\ IF frame_count' < FrameLimit
       THEN /\ get_capture_result' = "none"
            /\ queue_capture_result' = "none"
            /\ pop_frame_result' = "none"
            /\ sensor_capture' = "none"
            /\ capture_releases' = 0
            /\ body_frame' = "null"
            /\ frame_releases' = 0
            /\ num_bodies' = 0
            /\ data' = FreshData
            /\ outside' = {}
            /\ pushes' = 0
            /\ sample' = << >>
       ELSE UNCHANGED << get_capture_result, queue_capture_result,
                         pop_frame_result, sensor_capture, capture_releases,
                         body_frame, frame_releases, num_bodies, data,
                         outside, pushes, sample >>
    /\ UNCHANGED << variant, g_jointNames, exit_status, setupVars, teardown,
                    failures >>
    /\ UNCHANGED flightVars

LoopNext ==
    \/ GetCapture
    \/ EnqueueCapture
    \/ CaptureRelease
    \/ PopResult
    \/ GetNumBodies
    \/ Extract
    \/ PushSample
    \/ FrameRelease
    \/ LoopTest

(***************************************************************************)
(* Cleanup after the loop                                                  *)
(***************************************************************************)

\* k4abt_tracker_shutdown(tracker)
TrackerShutdown ==
    /\ pc = "tracker_shutdown"
    /\ teardown' = Append(teardown, << "k4abt_tracker_shutdown", tracker >>)
    /\ pc' = "tracker_destroy"
    /\ UNCHANGED << variant, g_jointNames, exit_status, setupVars, frameVars,
                    failures >>
    /\ UNCHANGED flightVars

\* k4abt_tracker_destroy(tracker)
TrackerDestroy ==
    /\ pc = "tracker_destroy"
    /\ teardown' = Append(teardown, << "k4abt_tracker_destroy", tracker >>)
    /\ pc' = "stop_cameras"
    /\ UNCHANGED << variant, g_jointNames, exit_status, setupVars, frameVars,
                    failures >>
    /\ UNCHANGED flightVars

\* k4a_device_stop_cameras(device)
StopCameras ==
    /\ pc = "stop_cameras"
    /\ teardown' = Append(teardown, << "k4a_device_stop_cameras", device >>)
    /\ cameras' = "stopped"
    /\ pc' = "device_close"
    /\ UNCHANGED << variant, g_jointNames, exit_status, device, tracker,
                    shadow_tracker, cuda_result, cpu_result, info, labels,
                    outlet, consumers, frameVars, failures >>
    /\ UNCHANGED flightVars

\* k4a_device_close(device); return 0;
DeviceClose ==
    /\ pc = "device_close"
    /\ teardown' = Append(teardown, << "k4a_device_close", device >>)
    /\ device' = "closed"
    /\ pc' = "exit"
    /\ exit_status' = 0
    /\ UNCHANGED << variant, g_jointNames, cameras, tracker, shadow_tracker,
                    cuda_result, cpu_result, info, labels, outlet, consumers,
                    frameVars, failures >>
    /\ UNCHANGED flightVars

TeardownNext ==
    \/ TrackerShutdown
    \/ TrackerDestroy
    \/ StopCameras
    \/ DeviceClose

Next == SetupNext \/ LoopNext \/ TeardownNext

Spec == Init /\ [][Next]_vars

(***************************************************************************)
(* Properties                                                              *)
(***************************************************************************)

\* control has left the body of the current iteration
LeftIteration ==
    pc \in {"loop_test", "tracker_shutdown", "tracker_destroy",
            "stop_cameras", "device_close", "exit"}

\* the calls of the capture loop
LoopCall == GetCapture \/ EnqueueCapture \/ PopResult \/ PushSample

SetupErrors == {"DeviceUnavailable", "CamerasUnavailable",
                "CalibrationUnavailable", "BackendUnavailable"}

\* C1: a body frame obtained by a successful pop_result has been released
\* exactly once when control leaves the iteration or the process exits,
\* whatever the body count was (0, 1 or more than 1).
C1_FrameReleasedOnce ==
    /\ frame_releases <= 1
    /\ (pop_frame_result = "SUCCEEDED" /\ LeftIteration)
          => (frame_releases = 1 /\ body_frame = "released")

\* C2: a capture obtained by a successful get_capture is released exactly
\* once, right after the enqueue call returned and before any pop_result,
\* whatever the enqueue call returned; nothing is released when get_capture
\* did not succeed.
C2_CaptureReleasedOnce ==
    /\ capture_releases <= 1
    /\ get_capture_result # "SUCCEEDED"
          => (capture_releases = 0 /\ sensor_capture = "none")
    /\ sensor_capture = "held"
          => (pc \in {"enqueue_capture", "capture_release"}
                /\ pop_frame_result = "none")
    /\ pc = "capture_release" => queue_capture_result # "none"
    /\ (get_capture_result = "SUCCEEDED"
          /\ pc \notin {"enqueue_capture", "capture_release"})
          => (capture_releases = 1 /\ sensor_capture = "released")
    /\ pop_frame_result # "none" => capture_releases = 1

\* C2 witness: the enqueue call did not succeed, the loop was left by the
\* break, and the capture has been released once.
C2_Witness ==
    /\ get_capture_result = "SUCCEEDED"
    /\ queue_capture_result \in {"FAILED", "TIMEOUT"}
    /\ pc = "tracker_shutdown"
    /\ capture_releases = 1

\* C3: when the popped frame reports zero bodies, nothing is pushed in that
\* iteration, and the zero-body frame does not end the loop (only the frame
\* bound does).
C3_NoPushOnZeroBodies ==
    (pop_frame_result = "SUCCEEDED" /\ num_bodies = 0
        /\ pc # "get_num_bodies")
       => /\ pushes = 0
          /\ sample = << >>
          /\ pc \in {"tracker_shutdown", "tracker_destroy", "stop_cameras",
                    "device_close", "exit"}
                => frame_count = FrameLimit

C5_CaptureFailureStops ==
    [][("CaptureFailed" \in failures) => ~LoopCall]_vars

\* C6: after pop_result returned timeout or failure, nothing is pushed for
\* that frame and no get_capture, enqueue, pop_result or push is called any
\* more.
C6_PopFailureStops ==
    /\ []((pop_frame_result \in {"FAILED", "TIMEOUT"}) => pushes = 0)
    /\ [][("PopFailed" \in failures) => ~LoopCall]_vars

\* the session ended in one of the fatal aborts the exit status has to show
FatalAbort ==
    \/ failures \cap SetupErrors # {}
    \/ "AmbiguousBodyCount" \in failures
    \/ get_capture_result = "FAILED"
    \/ queue_capture_result = "FAILED"
    \/ pop_frame_result = "FAILED"

\* the frame bound was reached and no call failed
NormalCompletion ==
    /\ failures = {}
    /\ frame_count = FrameLimit

\* C7: the process ends with status 0 when the session completed normally
\* and with a non-zero status after every fatal abort.
C7_ExitStatus ==
    pc = "exit"
       => /\ FatalAbort => exit_status # 0
          /\ NormalCompletion => exit_status = 0

\* C8: a failed setup step ends the process at once with a non-zero status:
\* no stream info, no outlet, no consumer wait, no capture request.
C8_SetupFailureFatal ==
    (failures \cap SetupErrors # {})
       => /\ pc = "exit"
          /\ exit_status # 0
          /\ info = NoInfo
          /\ labels = << >>
          /\ ~outlet
          /\ ~consumers
          /\ get_capture_result = "none"

\* C9: CUDA creation failed and CPU creation succeeded: the stream info
\* carries the rate 4 and the process does not end before the consumer wait
\* has let it into the capture loop.  CUDA creation succeeded: the rate is
\* 10 and the CPU creation was never called.
C9_FallbackRate ==
    /\ (cuda_result = "FAILED" /\ cpu_result = "SUCCEEDED")
          => /\ info # NoInfo => info.nominal_srate = 4
             /\ pc \notin {"tracker_create_cuda", "tracker_create_cpu",
                           "streaminfo_cpu"} => info # NoInfo
             /\ pc # "streaminfo_cuda"
             /\ pc = "exit" => consumers
             /\ failures \cap SetupErrors = {}
    /\ cuda_result = "SUCCEEDED"
          => /\ cpu_result = "none"
             /\ info # NoInfo => info.nominal_srate = 10
             /\ pc # "streaminfo_cpu"

\* C9 witness: after the fallback the program stands in the capture loop
\* with the baseline rate in the stream info.
C9_Witness ==
    /\ cuda_result = "FAILED"
    /\ cpu_result = "SUCCEEDED"
    /\ info.nominal_srate = 4
    /\ consumers
    /\ pc = "get_capture"

\* C10: for a joint table with N entries the stream info declares 7N
\* channels and 7N channel labels were appended.
C10_ChannelCount ==
    (pc \notin {"device_open", "start_cameras", "get_calibration",
                "tracker_create_cuda", "tracker_create_cpu",
                "streaminfo_cpu", "streaminfo_cuda", "append_channels"}
       /\ info # NoInfo)
       => /\ info.channel_count = 7 * Len(g_jointNames)
          /\ Len(labels) = info.channel_count

\* the layout of one joint's seven values in the pose vector
PoseLayout == << "position.x", "position.y", "position.z", "orientation.w",
                 "orientation.x", "orientation.y", "orientation.z" >>

\* the extraction of the current iteration has run
Extracted ==
    pop_frame_result = "SUCCEEDED" /\ pc \in {"push_sample", "frame_release"}

\* C11: after the extraction of a one-body frame, for every position j of
\* the joint table the slots 7j .. 7j+6 of the pose buffer exist and hold
\* position x, y, z and orientation w, x, y, z of the joint at position j,
\* and of no other joint.
C11_ExtractLayout ==
    (Extracted /\ num_bodies = 1)
       => \A j \in 0..(Len(g_jointNames) - 1) : \A k \in 0..6 :
             /\ (7 * j + k) \in DOMAIN data
             /\ data[7 * j + k] = << g_jointNames[j + 1], PoseLayout[k + 1] >>

\* the value a channel label names: the joint of the label and the
\* component its suffix stands for
LabelledValue(label) ==
    << label[1],
       PoseLayout[CHOOSE k \in 1..Len(suffixes) : suffixes[k] = label[2]] >>

\* C12: in every pushed sample, slot i holds the value that the i-th channel
\* label names (same joint, suffix order equal to value order).
C12_LabelsMatchSample ==
    pushes >= 1
       => \A i \in 1..Len(labels) :
             /\ (i - 1) \in DOMAIN sample
             /\ sample[i - 1] = LabelledValue(labels[i])

\* C13: no capture is requested and nothing is pushed before a
\* wait_for_consumers call returned true; as long as none did, the program
\* stays in the consumer wait.
C13_WaitsForConsumer ==
    /\ [](~consumers
            => /\ pc \in {"device_open", "start_cameras", "get_calibration",
                          "tracker_create_cuda", "tracker_create_cpu",
                          "streaminfo_cpu", "streaminfo_cuda",
                          "append_channels", "create_outlet",
                          "wait_for_consumers", "exit"}
               /\ get_capture_result = "none"
               /\ pushes = 0
               /\ teardown = << >>)
    /\ [][(LoopCall \/ Extract) => consumers]_vars
    /\ [][(pc = "wait_for_consumers" /\ ~consumers')
             => pc' = "wait_for_consumers"]_vars

\* C13 witness: a consumer attached and the first capture was requested.
C13_Witness ==
    /\ consumers
    /\ frame_count = 0
    /\ get_capture_result = "SUCCEEDED"
    /\ pc = "enqueue_capture"

\* C15: every slot of a pushed sample was written from the skeleton of the
\* frame being pushed: no slot is indeterminate and none was read from
\* beyond the buffer.
C15_SampleFullyWritten ==
    pushes >= 1
       => /\ \A i \in DOMAIN sample : sample[i] # Indeterminate
          /\ \A i \in DOMAIN sample : i < DataCapacity
          /\ num_bodies = 1

\* the tracker was created by one of the two k4abt_tracker_create calls
TrackerCreated == cuda_result = "SUCCEEDED" \/ cpu_result = "SUCCEEDED"

\* the pcs of the capture loop and of the cleanup after it
UsesTracker ==
    pc \in {"get_capture", "enqueue_capture", "capture_release",
            "pop_result", "get_num_bodies", "extract", "push_sample",
            "frame_release", "loop_test", "tracker_shutdown",
            "tracker_destroy"}

\* C16: in the capture loop and in the cleanup the variable tracker holds
\* the handle of the creation that succeeded, never a null handle.
C16_LiveTracker ==
    /\ UsesTracker
          => /\ tracker # "null"
             /\ cuda_result = "SUCCEEDED" => tracker = "cuda"
             /\ cpu_result = "SUCCEEDED" => tracker = "cpu"
    /\ \A i \in 1..Len(teardown) :
          teardown[i][1] \in {"k4abt_tracker_shutdown",
                              "k4abt_tracker_destroy"}
             => teardown[i][2] # "null"

\* the cleanup calls in the order main makes them
CleanupOrder == << "k4abt_tracker_shutdown", "k4abt_tracker_destroy",
                   "k4a_device_stop_cameras", "k4a_device_close" >>

\* the names of the cleanup calls made so far
TeardownCalls == [i \in 1..Len(teardown) |-> teardown[i][1]]

\* C17: after an enqueue call that did not succeed, there is no pop_result,
\* push or further capture request, the capture of that frame is released,
\* and the process ends only after shutdown, destroy, stop and close were
\* each called once, in that order.
C17_SubmitFailureCleanup ==
    /\ [](("SubmitFailed" \in failures)
            => /\ queue_capture_result \in {"FAILED", "TIMEOUT"}
               /\ pop_frame_result = "none"
               /\ pushes = 0
               /\ pc \in {"capture_release", "tracker_shutdown",
                          "tracker_destroy", "stop_cameras", "device_close",
                          "exit"}
               /\ pc # "capture_release"
                     => (capture_releases = 1 /\ sensor_capture = "released")
               /\ TeardownCalls = SubSeq(CleanupOrder, 1, Len(teardown))
               /\ pc = "exit" => TeardownCalls = CleanupOrder)
    /\ [][("SubmitFailed" \in failures) => ~(LoopCall \/ Extract)]_vars

\* C17 witness: the enqueue call failed and main has returned after the
\* four cleanup calls.
C17_Witness ==
    /\ "SubmitFailed" \in failures
    /\ pc = "exit"
    /\ Len(teardown) = 4
    /\ capture_releases = 1

\* C19: no store of the extraction and no read of the push touches an
\* index beyond the capacity of float data[7 * 31].
C19_WithinCapacity ==
    /\ outside = {}
    /\ Extracted /\ num_bodies = 1
          => Len(g_jointNames) * ValuesPerJoint <= DataCapacity
    /\ pushes >= 1 => info.channel_count <= DataCapacity

\* C20: when the process has ended after the device was opened, the device
\* is closed; when the tracker had been created as well, shutdown, destroy,
\* stop and close were each called once, in that order.
C20_CleanupOnEveryExit ==
    (pc = "exit" /\ device # "null")
       => /\ device = "closed"
          /\ TrackerCreated => TeardownCalls = CleanupOrder

\* C14: as long as no call failed and no frame had several bodies, at most
\* 100 captures are requested, and the cleanup is reached with exactly 100
\* requests made and the frame counter at 100.
C14_StopsAfterFrameLimit ==
    failures = {}
       => /\ requests <= FrameLimit
          /\ pc \in {"tracker_shutdown", "tracker_destroy", "stop_cameras",
                     "device_close", "exit"}
                => (requests = FrameLimit /\ frame_count = FrameLimit)

\* C18: never more than one capture and one body frame are held; when a
\* capture is requested, and when an iteration ends to request the next,
\* none is held; an iteration pushes at most once, and only the frame popped
\* for the capture of that iteration, after that capture was released.
C18_OneFrameInFlight ==
    /\ captures_held \in {0, 1}
    /\ frames_held \in {0, 1}
    /\ captures_held + frames_held <= 1
    /\ pc \in {"get_capture", "loop_test"}
          => (captures_held = 0 /\ frames_held = 0)
    /\ pushes <= 1
    /\ pushes = 1
          => /\ get_capture_result = "SUCCEEDED"
             /\ pop_frame_result = "SUCCEEDED"
             /\ capture_releases = 1

\* C18 witness: an iteration that pushed a sample has ended with capture and
\* body frame released, and the loop is about to go round.
C18_Witness ==
    /\ pc = "loop_test"
    /\ pushes = 1
    /\ num_bodies = 1
    /\ body_frame = "released"
    /\ sensor_capture = "released"
    /\ requests >= 2

====
